---- MODULE Spec2Model ----
(***************************************************************************)
(* A state-machine model of the playback core of blackredbull/charcoal:    *)
(*   - VideoPlayer   (src/components/watch/CustomVideoPlayer.tsx, and its  *)
(*                    copy src/components/watch/VideoPlayer/index.tsx)     *)
(*   - WatchPage     (src/pages/Home.tsx, second half) with the wrapper    *)
(*                    src/components/watch/VideoPlayer.tsx                 *)
(*   - CustomPlayer  (src/components/watch/CustomPlayer.tsx)               *)
(*                                                                         *)
(* One action is one handler run to completion: the handler's state        *)
(* updates, the re-render they cause and the effects whose dependencies    *)
(* changed.  The media element, the hls.js client, the network and the     *)
(* user are the environment: their events are the actions' inputs.         *)
(***************************************************************************)
EXTENDS Integers, Sequences, FiniteSets, TLC

(***************************************************************************)
(* Bounds of the model.                                                    *)
(***************************************************************************)
\* longest candidate list a resolution returns
MaxSources == 3
\* media duration, in time units, reported with a timeupdate event
MaxTime == 1
\* longest candidate list under SpecPage
MaxPageSources == 1
\* navigations to another episode under SpecPage
MaxNavigations == 1
\* seasons of a show and episodes of a season
MaxSeasons == 2
MaxEpisodes == 2
\* navigations of one session under SpecWatch
MaxHops == 3
\* candidates of a response, and durations of a resource, under SpecPlayback
MaxPlaybackSources == 2
MaxDurations == 1
\* pending timers of CustomPlayer's onMouseMove
MaxTimers == 2
\* longest watch history of a resume lookup
MaxHistory == 2
\* episodes of the season an episode list displays
MaxListed == 3

(***************************************************************************)
(* Strings.  A JavaScript string is a sequence of one-character strings.   *)
(***************************************************************************)
UpperCase == <<"A","B","C","D","E","F","G","H","I","J","K","L","M",
               "N","O","P","Q","R","S","T","U","V","W","X","Y","Z">>
LowerCase == <<"a","b","c","d","e","f","g","h","i","j","k","l","m",
               "n","o","p","q","r","s","t","u","v","w","x","y","z">>
Digit == {"0","1","2","3","4","5","6","7","8","9"}

\* String.prototype.toLowerCase, one character
toLowerChar(c) ==
  IF \E i \in 1..26 : UpperCase[i] = c
  THEN LowerCase[CHOOSE i \in 1..26 : UpperCase[i] = c]
  ELSE c

\* String.prototype.toLowerCase
toLowerCase(s) == [i \in 1..Len(s) |-> toLowerChar(s[i])]

\* String.prototype.includes
includes(s, sub) ==
  \E i \in 0..(Len(s) - Len(sub)) : SubSeq(s, i + 1, i + Len(sub)) = sub

\* lower.match(/\d/): some character is a digit
matchDigit(s) == \E i \in 1..Len(s) : s[i] \in Digit

IsDigit(c) == c \in Digit
\* lower.replace(/[^0-9]/g, ''): the digits of s, in order
onlyDigits(s) == SelectSeq(s, IsDigit)

\* formatQuality whose last numeric case returns the digits without the 'p'
formatQualityBareNumber(quality) ==
  IF quality = <<>> THEN <<"A","u","t","o">>
  ELSE
    LET lower == toLowerCase(quality)
        cleanQuality == onlyDigits(lower)
    IN  IF lower = <<"u","n","k","n","o","w","n">> \/ lower = <<>>
          THEN <<"S","D">>
        ELSE IF \/ includes(lower, <<"u","p"," ","t","o"," ","h","d">>)
                \/ lower = <<"h","d">>
                \/ (includes(lower, <<"h","d">>) /\ ~matchDigit(lower))
          THEN <<"H","D">>
        ELSE IF includes(cleanQuality, <<"2","1","6","0">>) \/ includes(lower, <<"4","k">>)
          THEN <<"4","K">>
        ELSE IF includes(cleanQuality, <<"1","4","4","0">>) \/ includes(lower, <<"2","k">>)
          THEN <<"2","K">>
        ELSE IF includes(cleanQuality, <<"1","0","8","0">>) THEN <<"1","0","8","0","p">>
        ELSE IF includes(cleanQuality, <<"7","2","0">>) THEN <<"7","2","0","p">>
        ELSE IF includes(cleanQuality, <<"4","8","0">>) THEN <<"4","8","0","p">>
        ELSE IF includes(cleanQuality, <<"3","6","0">>) THEN <<"3","6","0","p">>
        ELSE IF cleanQuality # <<>> THEN cleanQuality
        ELSE <<"S","D">>

\* formatQuality of CustomVideoPlayer.tsx
formatQuality(quality) ==
  IF quality = <<>> THEN <<"A","u","t","o">>
  ELSE
    LET lower == toLowerCase(quality)
        cleanQuality == onlyDigits(lower)
    IN  IF lower = <<"u","n","k","n","o","w","n">> \/ lower = <<>>
          THEN <<"S","D">>
        ELSE IF \/ includes(lower, <<"u","p"," ","t","o"," ","h","d">>)
                \/ lower = <<"h","d">>
                \/ (includes(lower, <<"h","d">>) /\ ~matchDigit(lower))
          THEN <<"H","D">>
        ELSE IF includes(cleanQuality, <<"2","1","6","0">>) \/ includes(lower, <<"4","k">>)
          THEN <<"4","K">>
        ELSE IF includes(cleanQuality, <<"1","4","4","0">>) \/ includes(lower, <<"2","k">>)
          THEN <<"2","K">>
        ELSE IF includes(cleanQuality, <<"1","0","8","0">>) THEN <<"1","0","8","0","p">>
        ELSE IF includes(cleanQuality, <<"7","2","0">>) THEN <<"7","2","0","p">>
        ELSE IF includes(cleanQuality, <<"4","8","0">>) THEN <<"4","8","0","p">>
        ELSE IF includes(cleanQuality, <<"3","6","0">>) THEN <<"3","6","0","p">>
        ELSE IF cleanQuality # <<>> THEN Append(cleanQuality, "p")
        ELSE <<"S","D">>

\* formatQuality of the VideoPlayer defined in EpisodeSelector.tsx
formatQualityLegacy(quality) ==
  IF quality = <<>> THEN <<"A","u","t","o">>
  ELSE
    LET lower == toLowerCase(quality)
        cleanQuality == onlyDigits(lower)
    IN  IF lower = <<"u","n","k","n","o","w","n">> \/ lower = <<>>
          THEN <<"S","D">>
        ELSE IF \/ includes(lower, <<"u","p"," ","t","o"," ","h","d">>)
                \/ (includes(lower, <<"h","d">>) /\ ~matchDigit(lower))
          THEN <<"H","D">>
        ELSE IF includes(cleanQuality, <<"2","1","6","0">>) \/ includes(lower, <<"4","k">>)
          THEN <<"4","K">>
        ELSE IF includes(cleanQuality, <<"1","4","4","0">>) \/ includes(lower, <<"2","k">>)
          THEN <<"2","K">>
        ELSE IF includes(cleanQuality, <<"1","0","8","0">>) THEN <<"1","0","8","0","p">>
        ELSE IF includes(cleanQuality, <<"7","2","0">>) THEN <<"7","2","0","p">>
        ELSE IF includes(cleanQuality, <<"4","8","0">>) THEN <<"4","8","0","p">>
        ELSE IF includes(cleanQuality, <<"3","6","0">>) THEN <<"3","6","0","p">>
        ELSE IF cleanQuality # <<>> THEN Append(cleanQuality, "p")
        ELSE <<"S","D">>

\* the labels the source selection looks for
LabelHD == <<"H","D">>
Label1080p == <<"1","0","8","0","p">>

(***************************************************************************)
(* Sources.  A candidate is a record [url, quality, type]; the candidate   *)
(* at position i of a resolved list has url i (urls are distinct), and the *)
(* players hold a candidate by its position in the list (the object's      *)
(* identity), 0 standing for null.                                         *)
(***************************************************************************)
\* the (raw provider quality, type) pairs of the modelled candidates: "hd",
\* "1080" and "720p", one for each of the labels the selection tells apart
\* (HD, 1080p, another), and each type
\* (BackendSource.type / JellySource.type: "hls" or "mp4")
SourceKinds ==
  { << <<"h","d">>, "hls" >>,
    << <<"1","0","8","0">>, "mp4" >>,
    << <<"7","2","0","p">>, "hls" >> }

\* the candidate lists of at most n candidates
ListsUpTo(n) ==
  UNION { { [i \in 1..m |-> [url |-> i, quality |-> k[i][1], type |-> k[i][2]]] :
              k \in [1..m -> SourceKinds] } : m \in 0..n }

SourceLists == ListsUpTo(MaxSources)

\* a resolution's result: null (fetchMovieData / fetchTVData produced nothing), or
\* an api response with its candidate list
NoData == [isNull |-> TRUE, sources |-> << >>]
ApiResponse(srcs) == [isNull |-> FALSE, sources |-> srcs]
Resolutions == {NoData} \cup { ApiResponse(srcs) : srcs \in SourceLists }

\* localStorage 'player-quality' is a sequence of at most one raw quality:
\* empty while getItem returns null
NoQuality == << >>

\* values of the media element's src besides a candidate's url (1, 2, ...):
\* the empty string, and the MediaSource object url hls.js gives the element
NoSrc == 0
BlobSrc == -1

\* Array.prototype.find over positions: the first position of idxs (ascending)
\* whose candidate satisfies the label test, 0 when there is none
findLabel(srcs, idxs, label) ==
  LET hits == { i \in idxs : formatQuality(srcs[i].quality) = label }
  IN  IF hits = {} THEN 0 ELSE CHOOSE i \in hits : \A j \in hits : i <= j

\* the first position of idxs, 0 when idxs is empty
firstOf(idxs) ==
  IF idxs = {} THEN 0 ELSE CHOOSE i \in idxs : \A j \in idxs : i <= j

\* an initial pick that takes 1080p before HD
initialSource1080pFirst(srcs) ==
  LET all == 1..Len(srcs)
      sHD == findLabel(srcs, all, LabelHD)
      s1080 == findLabel(srcs, all, Label1080p)
  IN  IF s1080 # 0 THEN s1080
      ELSE IF sHD # 0 THEN sHD
      ELSE firstOf(all)

\* initialSource of VideoPlayer (useMemo)
initialSource(srcs) ==
  LET all == 1..Len(srcs)
      sHD == findLabel(srcs, all, LabelHD)
      s1080 == findLabel(srcs, all, Label1080p)
  IN  IF sHD # 0 THEN sHD
      ELSE IF s1080 # 0 THEN s1080
      ELSE firstOf(all)

\* the fallback's filter without its test of the tried set
remainingSourcesIgnoringTried(srcs, tried, cur) ==
  { i \in 1..Len(srcs) : srcs[i].url # srcs[cur].url }

\* remainingSources of handleError: positions not tried and not the failing url
remainingSources(srcs, tried, cur) ==
  { i \in 1..Len(srcs) : srcs[i].url \notin tried /\ srcs[i].url # srcs[cur].url }

\* a fallback that takes the first remaining candidate whatever its label
nextSourceFirstRemaining(srcs, remaining) == firstOf(remaining)

\* the candidate handleError selects among remaining (non-empty): sHD || s1080 || remaining[0]
nextSource(srcs, remaining) ==
  LET sHD == findLabel(srcs, remaining, LabelHD)
      s1080 == findLabel(srcs, remaining, Label1080p)
  IN  IF sHD # 0 THEN sHD
      ELSE IF s1080 # 0 THEN s1080
      ELSE firstOf(remaining)

(***************************************************************************)
(* State.                                                                  *)
(***************************************************************************)
VARIABLES
  host,            \* which component tree runs: "WatchPage" or "CustomPlayer"
  platform,        \* "mse": Hls.isSupported(); "native": canPlayType(mpegurl) only; "none"
  isJellyLoading,  \* WatchPage: isJellyLoading
  jellyData,       \* WatchPage / CustomPlayer: jellyData (NoData or an api response)
  useCustomPlayer, \* WatchPage: useCustomPlayer
  mounted,         \* the player component (VideoPlayer / CustomPlayer) is mounted
  currentSource,   \* VideoPlayer: currentSource (position in the list, 0 = null)
  triedSources,    \* VideoPlayer: triedSources (set of urls)
  isLoading,       \* VideoPlayer: isLoading
  progress,        \* VideoPlayer: progress (percent)
  showQuality,     \* VideoPlayer: showQuality
  showSubtitles,   \* VideoPlayer: showSubtitles
  showEpisodeSelector, \* VideoPlayer: showEpisodeSelector
  showControls,    \* VideoPlayer / CustomPlayer: showControls
  controlsTimeout, \* pending auto-hide timers, each with what its callback will do
  videoSrc,        \* the media element's src: NoSrc, BlobSrc (a MediaSource) or a url
  hlsRef,          \* hlsRef.current: "null", "live" or "dead" (a destroyed instance)
  hlsAlive,        \* number of Hls instances created and not destroyed
  queryStatus,     \* CustomPlayer: the useJellySources query: "loading", "success", "error"
  isFetching,      \* CustomPlayer: a request of the query is in flight
  embedUrl,        \* CustomPlayer: an embedUrl prop was given
  selectedSource,  \* CustomPlayer: selectedSource (NoSource or << candidate >>)
  error,           \* CustomPlayer: error ("null", "unsupported" or "playback")
  activeMenu,      \* CustomPlayer: activeMenu ("none" or "quality")
  storedQuality,   \* localStorage 'player-quality': a raw quality, or NoQuality
  customTimers,    \* CustomPlayer: pending timers of onMouseMove
  scene,           \* what a display surface is given to render (its props and store)
  rendered,        \* what the surface rendered for it
  duration,        \* VideoPlayer: duration (0 until a durationchange is handled)
  videoDuration,   \* the media element: duration, 0 while it is NaN
  currentTime,     \* the media element: currentTime
  paused,          \* the media element: paused
  emitted,         \* (currentTime, duration) pairs the history collaborator received
  clickAt,         \* where the progress bar was clicked last (NoClick or << fraction >>)
  selectedSeason,  \* VideoPlayer: selectedSeason of the episode overlay (0 when unmounted)
  season,          \* WatchPage: the route's season
  episode,         \* WatchPage: the route's episode
  seasons,         \* WatchPage: seasons, as the number of episodes of each season
  pageSelectedSeason, \* WatchPage: selectedSeason
  pending,         \* WatchPage: the (season, episode) targets of the fetchData calls in flight
  jellyTarget,     \* the target whose response jellyData holds (NoTarget at first)
  cameFrom,        \* the route's target before the last navigation (NoTarget at first)
  navigations,     \* WatchPage: navigations to another episode so far
  staleTimers,     \* pending auto-hide timers of VideoPlayer instances no longer mounted
  lastEvent,       \* the handler that ran last: "mount", "handleError", "onHlsErrorFatal",
                   \* "onHlsError", "handleCanPlay", "onSelect", "timerFired", "retry",
                   \* or "other" for every other one
  attachRan        \* the last step ran the source-attachment effect / initPlayer to its end

vars == << host, platform, isJellyLoading, jellyData, useCustomPlayer, mounted,
           currentSource, triedSources, isLoading, progress, showQuality,
           showSubtitles, showEpisodeSelector, customTimers, scene, rendered,
           showControls, controlsTimeout, videoSrc, hlsRef, hlsAlive,
           queryStatus, isFetching, embedUrl, selectedSource, error, activeMenu,
           storedQuality, duration, videoDuration, currentTime, paused, emitted,
           clickAt, selectedSeason, season, episode, seasons, pageSelectedSeason,
           pending, jellyTarget, cameFrom, navigations, staleTimers, lastEvent,
           attachRan >>

pageVars == << isJellyLoading, useCustomPlayer >>
controlVars == << showControls, controlsTimeout >>
mediaVars == << videoSrc, hlsRef, hlsAlive >>
customPlayerVars == << queryStatus, isFetching, embedUrl, selectedSource, error,
                       activeMenu, storedQuality >>
fixedVars == << host, platform >>
pastVars == << navigations, staleTimers >>
menuVars == << showQuality, showSubtitles, showEpisodeSelector >>
displayVars == << customTimers, scene, rendered >>
elementVars == << videoDuration, currentTime, paused >>
seekVars == << duration, emitted, clickAt, selectedSeason >>
watchVars == << season, episode, seasons, pageSelectedSeason, pending, jellyTarget,
               cameFrom >>

Platforms == {"mse", "native", "none"}

(***************************************************************************)
(* The adaptive-streaming client and the media element.                    *)
(***************************************************************************)
\* hlsRef.current.destroy() of the instance hlsRef holds: h = [ref, alive, src].
\* Destroying a live instance detaches it from the element (hls.js removes the
\* element's MediaSource src); destroying a destroyed instance does nothing.
hlsDestroy(h) ==
  IF h.ref = "live"
  THEN [h EXCEPT !.ref = "dead", !.alive = h.alive - 1,
                 !.src = IF h.src = BlobSrc THEN NoSrc ELSE h.src]
  ELSE h

\* new Hls(...); hls.loadSource(url); hls.attachMedia(video); hlsRef.current = hls
hlsCreate(h) == [h EXCEPT !.ref = "live", !.alive = h.alive + 1, !.src = BlobSrc]

\* "if (hlsRef.current) { hlsRef.current.destroy(); hlsRef.current = null; }"
destroyPrevious(h) ==
  IF h.ref = "null" THEN h ELSE [hlsDestroy(h) EXCEPT !.ref = "null"]

\* the attachment branch shared by the VideoPlayer effect (lines 254-276) and
\* CustomPlayer.initPlayer (lines 68-101): h is the element/client state after the
\* teardown, s the source; "ok" is FALSE when neither hls.js nor the element can
\* play an hls source
attachBranch(h, s) ==
  IF s.type = "hls"
  THEN IF platform = "mse" THEN [hlsCreate(h) EXCEPT !.ok = TRUE]
       ELSE IF platform = "native" THEN [h EXCEPT !.src = s.url, !.ok = TRUE]
       ELSE [h EXCEPT !.ok = FALSE]
  ELSE [h EXCEPT !.src = s.url, !.ok = TRUE]

\* the media state the handlers start from
media == [ref |-> hlsRef, alive |-> hlsAlive, src |-> videoSrc, ok |-> TRUE]

(***************************************************************************)
(* VideoPlayer (CustomVideoPlayer.tsx).                                    *)
(***************************************************************************)
\* the source-attachment effect, lines 240-276: teardown, video.src = '', attach
sourceEffect(h, s) ==
  attachBranch([destroyPrevious(h) EXCEPT !.src = NoSrc], s)

\* "video.src = ''" and the attachment start the element's load algorithm: its
\* duration is NaN and its position 0 until the new resource reports them, and
\* it is paused until autoPlay starts it
elementLoads ==
  /\ videoDuration' = 0
  /\ currentTime' = 0
  /\ paused' = TRUE

\* The effect runs after a render in which currentSource, apiResponse.sources or
\* triedSources changed; cs is the new currentSource.  With no current source it
\* returns at once and the handler's own updates (loading, prog) stand.
RunSourceEffect(cs, loading, prog) ==
  IF cs = 0
  THEN /\ isLoading' = loading
       /\ progress' = prog
       /\ UNCHANGED << mediaVars, elementVars >>
       /\ attachRan' = FALSE
  ELSE LET h == sourceEffect(media, jellyData.sources[cs])
       IN  /\ isLoading' = TRUE
           /\ progress' = 0
           /\ videoSrc' = h.src
           /\ hlsRef' = h.ref
           /\ hlsAlive' = h.alive
           /\ elementLoads
           /\ attachRan' = TRUE

\* no effect runs: the handler's updates stand
handlerUpdates(loading, prog) ==
  /\ isLoading' = loading
  /\ progress' = prog
  /\ UNCHANGED mediaVars
  /\ attachRan' = FALSE

\* the same, for a handler that leaves the element as it is
NoSourceEffect(loading, prog) ==
  /\ handlerUpdates(loading, prog)
  /\ UNCHANGED elementVars

\* the listeners the effect registered on the element are in place
Listening == host = "WatchPage" /\ mounted /\ currentSource # 0

\* handleError, lines 297-312, and the effect its triedSources update re-runs
\* (setTriedSources always installs a new Set)
handleError ==
  /\ Listening
  /\ LET remaining == remainingSources(jellyData.sources, triedSources, currentSource)
         next == IF remaining # {} THEN nextSource(jellyData.sources, remaining)
                 ELSE currentSource
     IN  /\ triedSources' = triedSources \cup {jellyData.sources[currentSource].url}
         /\ currentSource' = next
         /\ RunSourceEffect(next, FALSE, progress)
  /\ lastEvent' = "handleError"
  /\ UNCHANGED << fixedVars, watchVars, seekVars, displayVars, pastVars, pageVars, jellyData, mounted, menuVars,
                  controlVars, customPlayerVars >>

\* onHlsError, lines 262-265: any ERROR event of the client, fatal or not
onHlsError(fatal) ==
  /\ host = "WatchPage" /\ hlsRef = "live"
  /\ NoSourceEffect(IF mounted THEN FALSE ELSE isLoading, progress)
  /\ lastEvent' = IF fatal THEN "onHlsErrorFatal" ELSE "onHlsError"
  /\ UNCHANGED << fixedVars, watchVars, seekVars, displayVars, pastVars, pageVars, jellyData, mounted, currentSource,
                  triedSources, menuVars, controlVars, customPlayerVars >>

\* handleWaiting (line 294): buffering
handleWaiting ==
  /\ Listening
  /\ NoSourceEffect(TRUE, progress)
  /\ lastEvent' = "other"
  /\ UNCHANGED << fixedVars, watchVars, seekVars, displayVars, pastVars, pageVars, jellyData, mounted, currentSource,
                  triedSources, menuVars, controlVars, customPlayerVars >>

\* handlePlaying / handleCanPlay (lines 295-296)
handleCanPlay ==
  /\ Listening /\ videoSrc # NoSrc
  /\ NoSourceEffect(FALSE, progress)
  /\ lastEvent' = "handleCanPlay"
  /\ UNCHANGED << fixedVars, watchVars, seekVars, displayVars, pastVars, pageVars, jellyData, mounted, currentSource,
                  triedSources, menuVars, controlVars, customPlayerVars >>

\* the props WatchPage gives VideoPlayer, Home.tsx lines 220-236
WatchPageProps ==
  {"videoUrl", "jellyData", "useCustomPlayer", "isMovie", "seasonNumber", "episodeNumber",
   "episodeTitle", "showTitle", "seasons", "onEpisodeNext", "onEpisodePrevious",
   "onEpisodeSelect", "isFirstEpisode", "isLastEpisode", "onBack"}

\* nothing was handed to the history collaborator yet
NoPair == << >>

\* onProgress?.(t, d), line 282: a call of the prop when the page passed one
onProgress(t, d) == IF "onProgress" \in WatchPageProps THEN << t, d >> ELSE emitted

\* handleTimeUpdate, lines 278-284: the element, at currentTime t of duration d
\* (0 while it is NaN), fires timeupdate
handleTimeUpdate(t, d) ==
  /\ Listening /\ videoSrc # NoSrc
  /\ videoDuration \in {0, d}
  /\ videoDuration' = d
  /\ currentTime' = t
  /\ paused' = paused
  /\ handlerUpdates(isLoading, IF d # 0 THEN (t * 100) \div d ELSE progress)
  /\ emitted' = IF d # 0 THEN onProgress(t, d) ELSE emitted
  /\ lastEvent' = "handleTimeUpdate"
  /\ UNCHANGED << fixedVars, watchVars, duration, clickAt, selectedSeason, displayVars, pastVars,
                  pageVars, jellyData, mounted, currentSource, triedSources, menuVars,
                  controlVars, customPlayerVars >>

\* handleDurationChange, lines 286-290: the attached resource reports its
\* duration d and the element fires durationchange (it fires none when a load
\* resets the duration)
handleDurationChange(d) ==
  /\ Listening /\ videoSrc # NoSrc
  /\ d # 0
  /\ videoDuration \in {0, d}
  /\ videoDuration' = d
  /\ duration' = d
  /\ UNCHANGED << currentTime, paused >>
  /\ handlerUpdates(isLoading, progress)
  /\ lastEvent' = "handleDurationChange"
  /\ UNCHANGED << fixedVars, watchVars, emitted, clickAt, selectedSeason, displayVars, pastVars,
                  pageVars, jellyData, mounted, currentSource, triedSources, menuVars,
                  controlVars, customPlayerVars >>

\* the autoPlay attribute, line 427: the element starts the attached resource
autoPlay ==
  /\ Listening /\ videoSrc # NoSrc /\ paused
  /\ paused' = FALSE
  /\ UNCHANGED << videoDuration, currentTime >>
  /\ handlerUpdates(isLoading, progress)
  /\ lastEvent' = "autoPlay"
  /\ UNCHANGED << fixedVars, watchVars, seekVars, displayVars, pastVars, pageVars, jellyData,
                  mounted, currentSource, triedSources, menuVars, controlVars,
                  customPlayerVars >>

\* togglePlay, lines 335-344: play() and pause() set the element's paused flag
togglePlay(isPaused) == ~isPaused

\* a click on the player's surface away from its controls: the root's onClick,
\* line 421
clickPlayer ==
  /\ host = "WatchPage" /\ mounted /\ ~showEpisodeSelector
  /\ paused' = togglePlay(paused)
  /\ UNCHANGED << videoDuration, currentTime >>
  /\ handlerUpdates(isLoading, progress)
  /\ lastEvent' = "clickPlayer"
  /\ UNCHANGED << fixedVars, watchVars, seekVars, displayVars, pastVars, pageVars, jellyData,
                  mounted, currentSource, triedSources, menuVars, controlVars,
                  customPlayerVars >>

\* Math.max(0, Math.min(clickX / rect.width, 1)), line 351, in percent of the width
clampFraction(f) == IF f < 0 THEN 0 ELSE IF f > 100 THEN 100 ELSE f

\* whether a click on the progress bar goes on to the root's onClick: the bar's
\* handlers (lines 700-703) stop the propagation of mousedown only
clickBubbles == TRUE

\* a click on the progress bar at f percent of its width: handleProgressBarClick,
\* lines 346-356, then the handlers of the bar's ancestors
clickProgressBar(f) ==
  /\ host = "WatchPage" /\ mounted /\ ~showEpisodeSelector
  /\ clickAt' = << f >>
  /\ IF duration = 0
     THEN /\ currentTime' = currentTime
          /\ handlerUpdates(isLoading, progress)
     ELSE /\ currentTime' = (clampFraction(f) * duration) \div 100
          /\ handlerUpdates(isLoading, clampFraction(f))
  /\ paused' = IF clickBubbles THEN togglePlay(paused) ELSE paused
  /\ videoDuration' = videoDuration
  /\ lastEvent' = "clickProgressBar"
  /\ UNCHANGED << fixedVars, watchVars, duration, emitted, selectedSeason, displayVars, pastVars,
                  pageVars, jellyData, mounted, currentSource, triedSources, menuVars,
                  controlVars, customPlayerVars >>

\* a menu of the player is open
menuOpen == showQuality \/ showSubtitles \/ showEpisodeSelector

\* a menu effect that shows the controls and leaves the pending timer alone
MenuEffectKeepingTimer(q, s, e) ==
  IF << q, s, e >> # menuVars /\ (q \/ s \/ e)
  THEN /\ showControls' = TRUE
       /\ controlsTimeout' = controlsTimeout
  ELSE UNCHANGED controlVars

\* the menu effect, lines 379-386: it runs after a render in which one of
\* showQuality, showSubtitles, showEpisodeSelector changed; q, s, e are their
\* new values
MenuEffect(q, s, e) ==
  IF << q, s, e >> # menuVars /\ (q \/ s \/ e)
  THEN /\ showControls' = TRUE
       /\ controlsTimeout' = "none"
  ELSE UNCHANGED controlVars

\* a handler that only sets the menu flags to q, s, e
setMenus(q, s, e) ==
  /\ showQuality' = q
  /\ showSubtitles' = s
  /\ showEpisodeSelector' = e
  /\ MenuEffect(q, s, e)
  /\ NoSourceEffect(isLoading, progress)
  /\ lastEvent' = "other"
  /\ UNCHANGED << fixedVars, watchVars, seekVars, displayVars, pastVars, pageVars, jellyData, mounted,
                  currentSource, triedSources, customPlayerVars >>

\* the control bar can be clicked: the episode overlay (line 518, inset-0 z-50)
\* does not cover it
BarReachable == host = "WatchPage" /\ mounted /\ ~showEpisodeSelector

\* the quality button, lines 786-790
toggleQuality ==
  /\ BarReachable
  /\ setMenus(~showQuality, FALSE, showEpisodeSelector)

\* the captions button, lines 815-819
toggleSubtitles ==
  /\ BarReachable
  /\ setMenus(FALSE, ~showSubtitles, showEpisodeSelector)

\* SubtitleSelector onSelect, lines 833-836
onSelectSubtitle ==
  /\ BarReachable /\ showSubtitles
  /\ setMenus(showQuality, FALSE, showEpisodeSelector)

\* the title button, lines 466-473, of a show with seasons
toggleEpisodeSelector ==
  /\ BarReachable
  /\ setMenus(FALSE, FALSE, ~showEpisodeSelector)

\* the overlay's backdrop and close button, lines 518 and 544
closeEpisodeSelector ==
  /\ host = "WatchPage" /\ mounted /\ showEpisodeSelector
  /\ setMenus(showQuality, showSubtitles, FALSE)

\* a selection that also forgets which sources failed
onSelectClearingTried(src) ==
  /\ BarReachable /\ showQuality
  /\ src \in 1..Len(jellyData.sources)
  /\ currentSource' = src
  /\ showQuality' = FALSE
  /\ triedSources' = {}
  /\ IF src # currentSource
     THEN RunSourceEffect(src, isLoading, progress)
     ELSE NoSourceEffect(isLoading, progress)
  /\ lastEvent' = "onSelect"
  /\ UNCHANGED << fixedVars, watchVars, seekVars, displayVars, pastVars, pageVars, jellyData, mounted,
                  showSubtitles, showEpisodeSelector, controlVars, customPlayerVars >>

\* QualitySelector onSelect, lines 804-807: the effect runs only when the
\* selected candidate is not the current one (React keeps an unchanged state)
onSelect(src) ==
  /\ BarReachable /\ showQuality
  /\ src \in 1..Len(jellyData.sources)
  /\ currentSource' = src
  /\ showQuality' = FALSE
  /\ IF src # currentSource
     THEN RunSourceEffect(src, isLoading, progress)
     ELSE NoSourceEffect(isLoading, progress)
  /\ lastEvent' = "onSelect"
  /\ UNCHANGED << fixedVars, watchVars, seekVars, displayVars, pastVars, pageVars, jellyData, mounted, triedSources,
                  showSubtitles, showEpisodeSelector, controlVars, customPlayerVars >>

\* handleMouseMove, lines 367-377: the callback closes over the menu state of
\* the render the pointer moved in
handleMouseMove ==
  /\ host = "WatchPage" /\ mounted
  /\ showControls' = TRUE
  /\ controlsTimeout' = IF menuOpen THEN "keep" ELSE "hide"
  /\ NoSourceEffect(isLoading, progress)
  /\ lastEvent' = "other"
  /\ UNCHANGED << fixedVars, watchVars, seekVars, displayVars, pastVars, pageVars, jellyData, mounted, currentSource,
                  triedSources, menuVars, customPlayerVars >>

\* the timer callback of handleMouseMove, lines 372-376, 3000 ms later, of the
\* mounted instance
controlsTimeoutFires ==
  /\ host = "WatchPage" /\ mounted /\ controlsTimeout # "none"
  /\ controlsTimeout' = "none"
  /\ showControls' = IF controlsTimeout = "hide" THEN FALSE ELSE showControls
  /\ NoSourceEffect(isLoading, progress)
  /\ lastEvent' = "timerFired"
  /\ UNCHANGED << fixedVars, watchVars, seekVars, displayVars, pastVars, pageVars, jellyData, mounted, currentSource,
                  triedSources, menuVars, customPlayerVars >>

\* the same callback of an instance that was unmounted meanwhile: its
\* setShowControls reaches no component
staleTimerFires ==
  /\ host = "WatchPage" /\ staleTimers > 0
  /\ staleTimers' = staleTimers - 1
  /\ NoSourceEffect(isLoading, progress)
  /\ lastEvent' = "timerFired"
  /\ UNCHANGED << fixedVars, watchVars, seekVars, displayVars, navigations, pageVars, jellyData, mounted, currentSource,
                  triedSources, menuVars, controlVars, customPlayerVars >>

\* no click on the progress bar yet
NoClick == << >>

\* VideoPlayer leaves the tree.  The only cleanup is the one of the source
\* effect, lines 323-332, which removes the element's listeners: the Hls
\* instance is not destroyed and the pending timer is not cleared.  The
\* instance's state, refs and element are discarded with it.
unmountVideoPlayer ==
  /\ mounted' = FALSE
  /\ currentSource' = 0
  /\ triedSources' = {}
  /\ isLoading' = TRUE
  /\ progress' = 0
  /\ showQuality' = FALSE
  /\ showSubtitles' = FALSE
  /\ showEpisodeSelector' = FALSE
  /\ showControls' = TRUE
  /\ controlsTimeout' = "none"
  /\ staleTimers' = staleTimers + (IF controlsTimeout # "none" THEN 1 ELSE 0)
  /\ videoSrc' = NoSrc
  /\ hlsRef' = "null"
  /\ hlsAlive' = hlsAlive
  /\ videoDuration' = 0
  /\ currentTime' = 0
  /\ paused' = TRUE
  /\ duration' = 0
  /\ clickAt' = NoClick
  /\ selectedSeason' = 0
  /\ emitted' = emitted
  /\ attachRan' = FALSE

(***************************************************************************)
(* WatchPage (pages/Home.tsx) and the wrapper (watch/VideoPlayer.tsx).     *)
(***************************************************************************)
\* fetchData, lines 98-116, from the await on: the resolution returned data
\* (NoData or a candidate list).  The page then renders the wrapper, which mounts
\* VideoPlayer when useCustomPlayer and jellyData hold; VideoPlayer's first render
\* takes initialSource and its effect attaches it.
fetchDataResolves(data) ==
  /\ host = "WatchPage"
  /\ \E r \in pending : pending' = pending \ {r} /\ jellyTarget' = r
  /\ jellyData' = data
  /\ useCustomPlayer' = ~data.isNull
  /\ isJellyLoading' = FALSE
  /\ IF ~mounted
     THEN /\ IF ~data.isNull
             THEN /\ mounted' = TRUE
                  /\ currentSource' = initialSource(data.sources)
                  /\ selectedSeason' = season
                  /\ IF initialSource(data.sources) = 0
                     THEN NoSourceEffect(TRUE, 0)
                     ELSE LET h == sourceEffect(media, data.sources[initialSource(data.sources)])
                          IN  /\ isLoading' = TRUE
                              /\ progress' = 0
                              /\ videoSrc' = h.src
                              /\ hlsRef' = h.ref
                              /\ hlsAlive' = h.alive
                              /\ elementLoads
                              /\ attachRan' = TRUE
             ELSE /\ UNCHANGED << mounted, currentSource, selectedSeason >>
                  /\ NoSourceEffect(isLoading, progress)
          /\ UNCHANGED << duration, emitted, clickAt, pastVars, triedSources, menuVars,
                          controlVars >>
     \* the response of a request that a later one overtook reaches a page
     \* whose player is mounted: without data the wrapper drops the player, with
     \* data the new apiResponse.sources array re-runs the source effect on the
     \* candidate the player holds (the candidates of the model carry no
     \* episode, so the lists of both responses are the same)
     ELSE IF data.isNull
          THEN unmountVideoPlayer /\ navigations' = navigations
          ELSE /\ data.sources = jellyData.sources
               /\ RunSourceEffect(currentSource, isLoading, progress)
               /\ UNCHANGED << mounted, currentSource, seekVars, pastVars, triedSources,
                               menuVars, controlVars >>
  /\ lastEvent' = "mount"
  /\ UNCHANGED << fixedVars, season, episode, seasons, pageSelectedSeason, cameFrom,
                  displayVars, customPlayerVars >>

\* what the watch page shows, Home.tsx lines 215-237 and VideoPlayer.tsx lines 54-108
WatchView ==
  IF isJellyLoading THEN "pageSpinner"
  ELSE IF useCustomPlayer
       THEN IF jellyData.isNull THEN "tryingJelly" ELSE "VideoPlayer"
       ELSE "iframe"

\* navigate(...) of Home.tsx lines 178-201 to the target (s, e), another one: the
\* route changes, the fetchData effect (lines 97-119) starts over with
\* setIsJellyLoading(true) and a new request, and the page renders its spinner
\* in place of the player, which unmounts.  Requests already in flight go on.
navigate(s, e) ==
  /\ host = "WatchPage"
  /\ << s, e >> # << season, episode >>
  /\ season' = s
  /\ episode' = e
  /\ cameFrom' = << season, episode >>
  /\ pending' = pending \cup {<< s, e >>}
  /\ isJellyLoading' = TRUE
  /\ unmountVideoPlayer
  /\ UNCHANGED << fixedVars, seasons, pageSelectedSeason, jellyTarget, displayVars,
                  jellyData, useCustomPlayer, customPlayerVars >>

\* the episodes of the show
Episodes(show) ==
  { t \in (1..Len(show)) \X (1..MaxEpisodes) : t[2] <= show[t[1]] }

\* handleEpisodeSelect, Home.tsx lines 199-201, for an episode picked on a page
\* that has settled
handleEpisodeSelect ==
  /\ ~isJellyLoading
  /\ navigations < MaxNavigations
  /\ navigations' = navigations + 1
  /\ \E t \in Episodes(seasons) : navigate(t[1], t[2])
  /\ lastEvent' = "other"

\* BottomBar is rendered, Home.tsx line 239
BottomBarShown == host = "WatchPage" /\ (~useCustomPlayer \/ jellyData.isNull)

\* the Previous and Next buttons are on screen: BottomBar's (BottomBar.tsx lines
\* 81 and 119) or those of the player's episode overlay (lines 668-683)
NavigationShown == BottomBarShown \/ (host = "WatchPage" /\ mounted /\ showEpisodeSelector)

\* isFirstEpisode and isLastEpisode, Home.tsx lines 203-207: the last episode is
\* counted in currentSeasonData, the season of the page's selectedSeason
isFirstEpisode == season = 1 /\ episode = 1
isLastEpisode ==
  /\ season = Len(seasons)
  /\ pageSelectedSeason \in 1..Len(seasons)
  /\ episode = seasons[pageSelectedSeason]

\* where handleNext (lines 188-197) and handlePrevious (lines 178-186) navigate
\* from (s, e); (s, e) itself when they do not navigate
nextTarget(s, e) ==
  IF e < seasons[s] THEN << s, e + 1 >>
  ELSE IF s < Len(seasons) THEN << s + 1, 1 >>
  ELSE << s, e >>
previousTarget(s, e) ==
  IF e > 1 THEN << s, e - 1 >>
  ELSE IF s > 1 THEN << s - 1, 1 >>
  ELSE << s, e >>

\* the Next button, where it is on screen and not disabled
handleNext ==
  /\ NavigationShown /\ ~isLastEpisode
  /\ navigations < MaxHops
  /\ navigations' = navigations + 1
  /\ navigate(nextTarget(season, episode)[1], nextTarget(season, episode)[2])
  /\ lastEvent' = "handleNext"

\* the Previous button, where it is on screen and not disabled
handlePrevious ==
  /\ NavigationShown /\ ~isFirstEpisode
  /\ navigations < MaxHops
  /\ navigations' = navigations + 1
  /\ navigate(previousTarget(season, episode)[1], previousTarget(season, episode)[2])
  /\ lastEvent' = "handlePrevious"

\* an episode button of the player's overlay, CustomVideoPlayer.tsx lines
\* 578-582: onEpisodeSelect(selectedSeason, n), for another episode than the
\* one that plays
clickOverlayEpisode(n) ==
  /\ host = "WatchPage" /\ mounted /\ showEpisodeSelector
  /\ selectedSeason \in 1..Len(seasons) /\ n \in 1..seasons[selectedSeason]
  /\ navigations < MaxHops
  /\ navigations' = navigations + 1
  /\ navigate(selectedSeason, n)
  /\ lastEvent' = "select"

\* an episode of BottomBar's selector (BottomBar.tsx lines 184-187), which lists
\* the page's selectedSeason
clickBarEpisode(n) ==
  /\ BottomBarShown
  /\ pageSelectedSeason \in 1..Len(seasons) /\ n \in 1..seasons[pageSelectedSeason]
  /\ navigations < MaxHops
  /\ navigations' = navigations + 1
  /\ navigate(pageSelectedSeason, n)
  /\ lastEvent' = "select"

\* onSeasonChange={setSelectedSeason} of BottomBar, Home.tsx line 253
onSeasonChange(s) ==
  /\ BottomBarShown
  /\ s \in 1..Len(seasons) /\ s # pageSelectedSeason
  /\ pageSelectedSeason' = s
  /\ NoSourceEffect(isLoading, progress)
  /\ lastEvent' = "onSeasonChange"
  /\ UNCHANGED << fixedVars, season, episode, seasons, pending, jellyTarget, cameFrom, seekVars,
                  displayVars, pastVars, pageVars, jellyData, mounted, currentSource,
                  triedSources, menuVars, controlVars, customPlayerVars >>

\* a season tab that also opens the season's first episode
selectSeasonTabNavigating(s) ==
  /\ host = "WatchPage" /\ mounted /\ showEpisodeSelector
  /\ s \in 1..Len(seasons) /\ s # season
  /\ navigate(s, 1)
  /\ navigations' = navigations
  /\ lastEvent' = "selectSeasonTab"

\* a season tab of the episode overlay, lines 528-541: setSelectedSeason; the
\* overlay's container (line 519) stops the click there
selectSeasonTab(s) ==
  /\ host = "WatchPage" /\ mounted /\ showEpisodeSelector
  /\ s \in 1..Len(seasons)
  /\ selectedSeason' = s
  /\ NoSourceEffect(isLoading, progress)
  /\ lastEvent' = "selectSeasonTab"
  /\ UNCHANGED << fixedVars, watchVars, duration, emitted, clickAt, displayVars, pastVars,
                  pageVars, jellyData, mounted, currentSource, triedSources, menuVars,
                  controlVars, customPlayerVars >>

(***************************************************************************)
(* CustomPlayer (CustomPlayer.tsx) over the useJellySources query.         *)
(* selectedSource holds the candidate itself: NoSource (null) or a         *)
(* one-element sequence; react-query keeps the references of what is       *)
(* deep-equal in a new result, so equal records are the same object.       *)
(***************************************************************************)
NoSource == << >>

\* what CustomPlayer renders for a query status, data and error, lines 166-206
customView(status, data, err) ==
  IF status = "loading" THEN "spinner"
  ELSE IF Len(data.sources) = 0 \/ status = "error" \/ err # "null"
       THEN IF embedUrl THEN "iframe" ELSE "failed"
       ELSE "player"

CustomView == customView(queryStatus, jellyData, error)

\* the [jellyData] effect, lines 48-54: the candidate whose quality is the stored
\* one, else the first; the selection stands when the list is empty
cachedSource(data, sel) ==
  IF Len(data.sources) = 0 THEN sel
  ELSE LET hits == { i \in 1..Len(data.sources) :
                       storedQuality # NoQuality /\ data.sources[i].quality = storedQuality[1] }
       IN  IF hits # {} THEN << data.sources[firstOf(hits)] >> ELSE << data.sources[1] >>

\* the cleanup of the initPlayer effect, lines 106-110
cleanupInitPlayer(h) == IF h.ref = "null" THEN h ELSE hlsDestroy(h)

\* initPlayer, lines 56-102, after the cleanup of its previous run
initPlayer(h, s) == attachBranch(destroyPrevious(cleanupInitPlayer(h)), s)

\* The initPlayer effect re-runs when selectedSource changed; it returns at once
\* when the video element is not rendered (present = FALSE) or nothing is
\* selected.  An error it sets removes the video element from the page.
RunInitPlayer(sel, present) ==
  IF sel = NoSource \/ ~present
  THEN /\ hlsRef' = cleanupInitPlayer(media).ref
       /\ hlsAlive' = cleanupInitPlayer(media).alive
       /\ videoSrc' = IF present THEN cleanupInitPlayer(media).src ELSE NoSrc
       /\ error' = error
       /\ attachRan' = FALSE
       /\ UNCHANGED elementVars
  ELSE LET h == initPlayer(media, sel[1])
       IN  /\ UNCHANGED elementVars
           /\ hlsRef' = h.ref
           /\ hlsAlive' = h.alive
           /\ videoSrc' = IF h.ok THEN h.src ELSE NoSrc
           /\ error' = IF h.ok THEN "null" ELSE "unsupported"
           /\ attachRan' = TRUE

\* no effect runs; err is the handler's error, and the video element is present
\* or not after the render (a removed element holds no source)
NoInitPlayer(err, present) ==
  /\ UNCHANGED << hlsRef, hlsAlive, elementVars >>
  /\ videoSrc' = IF present THEN videoSrc ELSE NoSrc
  /\ error' = err
  /\ attachRan' = FALSE

\* what a request of the query may return: any candidate list the first time;
\* on a refetch the same response again, or a response with at most one candidate
QueryResults ==
  IF jellyData.isNull
  THEN { ApiResponse(srcs) : srcs \in SourceLists }
  ELSE {jellyData} \cup { ApiResponse(srcs) : srcs \in ListsUpTo(1) }

\* the query settles with an api response
queryResolves(data) ==
  /\ host = "CustomPlayer" /\ mounted /\ isFetching
  /\ queryStatus' = "success"
  /\ isFetching' = FALSE
  /\ jellyData' = data
  /\ LET sel == cachedSource(data, selectedSource)
         present == customView("success", data, error) = "player"
     IN  /\ selectedSource' = sel
         /\ IF sel # selectedSource
            THEN RunInitPlayer(sel, present)
            ELSE NoInitPlayer(error, present)
  /\ lastEvent' = "other"
  /\ UNCHANGED << fixedVars, watchVars, seekVars, displayVars, pastVars, pageVars, mounted, currentSource, triedSources,
                  isLoading, progress, menuVars, controlVars, embedUrl,
                  activeMenu, storedQuality >>

\* the query settles with an error (after its one retry); data it had stays
queryFails ==
  /\ host = "CustomPlayer" /\ mounted /\ isFetching
  /\ queryStatus' = "error"
  /\ isFetching' = FALSE
  /\ NoInitPlayer(error, FALSE)
  /\ lastEvent' = "other"
  /\ UNCHANGED << fixedVars, watchVars, seekVars, displayVars, pastVars, pageVars, jellyData, mounted, currentSource,
                  triedSources, isLoading, progress, menuVars, controlVars,
                  embedUrl, selectedSource, activeMenu, storedQuality >>

\* a fetch starts: a query that never had data goes back to "loading"
fetchStatus(status) == IF jellyData.isNull THEN "loading" ELSE status

\* react-query refetches a settled query in the background (window focus)
queryRefetches ==
  /\ host = "CustomPlayer" /\ mounted /\ ~isFetching
  /\ queryStatus' = fetchStatus(queryStatus)
  /\ isFetching' = TRUE
  /\ NoInitPlayer(error, customView(queryStatus', jellyData, error) = "player")
  /\ lastEvent' = "other"
  /\ UNCHANGED << fixedVars, watchVars, seekVars, displayVars, pastVars, pageVars, jellyData, mounted, currentSource,
                  triedSources, isLoading, progress, menuVars, controlVars,
                  embedUrl, selectedSource, activeMenu, storedQuality >>

\* the Hls.Events.ERROR handler, lines 78-93; kind is "nonfatal", or the type of
\* a fatal error: "network", "media" or "other"
onCustomHlsError(kind) ==
  /\ host = "CustomPlayer" /\ hlsRef = "live"
  /\ IF kind = "other"
     THEN LET h == hlsDestroy(media)
          IN  /\ hlsRef' = h.ref
              /\ hlsAlive' = h.alive
              /\ videoSrc' = NoSrc
              /\ error' = "playback"
              /\ attachRan' = FALSE
              /\ UNCHANGED elementVars
     ELSE NoInitPlayer(error, CustomView = "player")
  /\ lastEvent' = IF kind = "nonfatal" THEN "other" ELSE "onHlsErrorFatal"
  /\ UNCHANGED << fixedVars, watchVars, seekVars, displayVars, pastVars, pageVars, jellyData, mounted, currentSource,
                  triedSources, isLoading, progress, menuVars, controlVars,
                  queryStatus, isFetching, embedUrl, selectedSource, activeMenu,
                  storedQuality >>

\* the Quality button, line 258
toggleQualityMenu ==
  /\ host = "CustomPlayer" /\ mounted /\ CustomView = "player"
  /\ activeMenu' = IF activeMenu = "quality" THEN "none" ELSE "quality"
  /\ NoInitPlayer(error, TRUE)
  /\ lastEvent' = "other"
  /\ UNCHANGED << fixedVars, watchVars, seekVars, displayVars, pastVars, pageVars, jellyData, mounted, currentSource,
                  triedSources, isLoading, progress, menuVars, controlVars,
                  queryStatus, isFetching, embedUrl, selectedSource, storedQuality >>

\* handleQualityChange, lines 113-117, and the initPlayer effect it re-runs
handleQualityChange(src) ==
  /\ host = "CustomPlayer" /\ mounted /\ CustomView = "player"
  /\ activeMenu = "quality"
  /\ src \in 1..Len(jellyData.sources)
  /\ selectedSource' = << jellyData.sources[src] >>
  /\ storedQuality' = << jellyData.sources[src].quality >>
  /\ IF selectedSource' # selectedSource
     THEN RunInitPlayer(selectedSource', TRUE)
     ELSE NoInitPlayer(error, TRUE)
  /\ activeMenu' = "none"
  /\ lastEvent' = "onSelect"
  /\ UNCHANGED << fixedVars, watchVars, seekVars, displayVars, pastVars, pageVars, jellyData, mounted, currentSource,
                  triedSources, isLoading, progress, menuVars, controlVars,
                  queryStatus, isFetching, embedUrl >>

\* the Retry button of the failure screen, line 196: setError(null); refetch()
retry ==
  /\ host = "CustomPlayer" /\ mounted /\ CustomView = "failed"
  /\ queryStatus' = IF isFetching THEN queryStatus ELSE fetchStatus(queryStatus)
  /\ isFetching' = TRUE
  /\ NoInitPlayer("null", customView(queryStatus', jellyData, "null") = "player")
  /\ lastEvent' = "retry"
  /\ UNCHANGED << fixedVars, watchVars, seekVars, displayVars, pastVars, pageVars, jellyData, mounted, currentSource,
                  triedSources, isLoading, progress, menuVars, controlVars,
                  embedUrl, selectedSource, activeMenu, storedQuality >>

\* onMouseMove of the player's root element, lines 209-214: the function the
\* handler returns is dropped by React, so no timer is ever cleared
customMouseMove ==
  /\ host = "CustomPlayer" /\ mounted /\ CustomView = "player"
  /\ customTimers < MaxTimers
  /\ showControls' = TRUE
  /\ customTimers' = customTimers + 1
  /\ attachRan' = FALSE
  /\ lastEvent' = "other"
  /\ UNCHANGED << fixedVars, watchVars, seekVars, elementVars, pastVars, pageVars, jellyData, mounted, currentSource,
                  triedSources, isLoading, progress, menuVars, controlsTimeout,
                  mediaVars, customPlayerVars, scene, rendered >>

\* a timer of onMouseMove fires, line 212, the oldest pending one first
customTimerFires ==
  /\ host = "CustomPlayer" /\ customTimers > 0
  /\ customTimers' = customTimers - 1
  /\ showControls' = IF mounted THEN FALSE ELSE showControls
  /\ attachRan' = FALSE
  /\ lastEvent' = "timerFired"
  /\ UNCHANGED << fixedVars, watchVars, seekVars, elementVars, pastVars, pageVars, jellyData, mounted, currentSource,
                  triedSources, isLoading, progress, menuVars, controlsTimeout,
                  mediaVars, customPlayerVars, scene, rendered >>

\* unmount: the cleanup of the initPlayer effect, lines 106-110
unmountCustomPlayer ==
  /\ host = "CustomPlayer" /\ mounted
  /\ mounted' = FALSE
  /\ hlsRef' = cleanupInitPlayer(media).ref
  /\ hlsAlive' = cleanupInitPlayer(media).alive
  /\ videoSrc' = NoSrc
  /\ attachRan' = FALSE
  /\ lastEvent' = "other"
  /\ UNCHANGED << fixedVars, watchVars, seekVars, elementVars, displayVars, pastVars, pageVars, jellyData, currentSource, triedSources,
                  isLoading, progress, menuVars, controlVars, queryStatus,
                  isFetching, embedUrl, selectedSource, error, activeMenu,
                  storedQuality >>

\* nothing to render, nothing rendered
NoScene == [kind |-> "none"]
NotRendered == [kind |-> "none"]

\* the raw qualities a previous visit may have stored
StoredQualities == {NoQuality} \cup { << k[1] >> : k \in SourceKinds }

\* no target
NoTarget == << >>

\* the show of the watch page under Spec and SpecPage: one season of two episodes
PageSeasons == << 2 >>

\* the state after construction of the page and its player, for the route
\* (s, e) of a show: the first render starts fetchData for that target
ConstructedAt(show, s, e) ==
  /\ season = s /\ episode = e /\ seasons = show
  /\ pageSelectedSeason = s
  /\ jellyTarget = NoTarget
  /\ cameFrom = NoTarget
  /\ duration = 0 /\ videoDuration = 0 /\ currentTime = 0 /\ paused = TRUE
  /\ emitted = NoPair /\ clickAt = NoClick /\ selectedSeason = 0
  /\ host \in {"WatchPage", "CustomPlayer"}
  /\ pending = IF host = "WatchPage" THEN {<< s, e >>} ELSE {}
  /\ platform \in Platforms
  /\ isJellyLoading = (host = "WatchPage")
  /\ jellyData = NoData
  /\ useCustomPlayer = TRUE
  /\ mounted = (host = "CustomPlayer")
  /\ currentSource = 0
  /\ triedSources = {}
  /\ isLoading = TRUE
  /\ progress = 0
  /\ showQuality = FALSE
  /\ showSubtitles = FALSE
  /\ showEpisodeSelector = FALSE
  /\ customTimers = 0
  /\ showControls = (host = "WatchPage")
  /\ controlsTimeout = "none"
  /\ videoSrc = NoSrc
  /\ hlsRef = "null"
  /\ hlsAlive = 0
  /\ queryStatus = "loading"
  /\ isFetching = (host = "CustomPlayer")
  /\ embedUrl \in IF host = "CustomPlayer" THEN BOOLEAN ELSE {FALSE}
  /\ selectedSource = NoSource
  /\ error = "null"
  /\ activeMenu = "none"
  /\ storedQuality \in IF host = "CustomPlayer" THEN StoredQualities ELSE {NoQuality}
  /\ navigations = 0
  /\ staleTimers = 0
  /\ lastEvent = "other"
  /\ attachRan = FALSE

Constructed == ConstructedAt(PageSeasons, 1, 1)

Init ==
  /\ Constructed
  /\ scene = NoScene
  /\ rendered = NotRendered

\* the handlers of VideoPlayer that select, attach and play sources
VideoPlayerNext ==
  \/ handleError
  \/ \E fatal \in BOOLEAN : onHlsError(fatal)
  \/ handleWaiting
  \/ handleCanPlay
  \/ \E t \in 1..MaxTime : handleTimeUpdate(t, MaxTime)
  \/ toggleQuality
  \/ \E src \in 1..MaxSources : onSelect(src)

CustomPlayerNext ==
  \/ \E data \in QueryResults : queryResolves(data)
  \/ queryFails
  \/ queryRefetches
  \/ \E kind \in {"nonfatal", "network", "media", "other"} : onCustomHlsError(kind)
  \/ toggleQualityMenu
  \/ \E src \in 1..MaxSources : handleQualityChange(src)
  \/ retry
  \/ unmountCustomPlayer

Next ==
  \/ \E data \in Resolutions : fetchDataResolves(data)
  \/ VideoPlayerNext
  \/ CustomPlayerNext

Spec == Init /\ [][Next]_vars

\* Both players with their pointer, menus, timers and navigation, over short lists
PageResolutions == {NoData} \cup { ApiResponse(l) : l \in ListsUpTo(MaxPageSources) }

\* what CustomPlayer's query returns under SpecPage
PageQueryResults == { ApiResponse(l) : l \in ListsUpTo(MaxPageSources) }

InitPage == Init

NextPage ==
  \/ \E data \in PageResolutions : fetchDataResolves(data)
  \/ VideoPlayerNext
  \/ handleMouseMove
  \/ controlsTimeoutFires
  \/ staleTimerFires
  \/ handleEpisodeSelect
  \/ toggleSubtitles
  \/ onSelectSubtitle
  \/ toggleEpisodeSelector
  \/ closeEpisodeSelector
  \/ \E data \in PageQueryResults : queryResolves(data)
  \/ customMouseMove
  \/ customTimerFires
  \/ unmountCustomPlayer

SpecPage == InitPage /\ [][NextPage]_vars

\* The mounted player with its element: durations, positions, clicks on the
\* progress bar and on the surface, source switches and the season tabs
\* the response under SpecPlayback: an adaptive stream first, files after it
PlaybackResolutions ==
  { ApiResponse(l) : l \in { k \in ListsUpTo(MaxPlaybackSources) :
                               /\ Len(k) = MaxPlaybackSources
                               /\ k[1].type = "hls"
                               /\ \A i \in 2..Len(k) : k[i].type = "mp4" } }

\* durations a resource reports, in seconds
Durations == { 2 * n : n \in 1..MaxDurations }

\* where the progress bar is clicked, in percent of its width
ClickFractions == {-50, 50, 150}

\* the show under SpecPlayback: one episode in each season
PlaybackSeasons == [s \in 1..MaxSeasons |-> 1]

InitPlayback ==
  /\ ConstructedAt(PlaybackSeasons, 1, 1)
  /\ host = "WatchPage" /\ platform = "mse"
  /\ scene = NoScene
  /\ rendered = NotRendered

NextPlayback ==
  \/ \E data \in PlaybackResolutions : fetchDataResolves(data)
  \/ \E d \in Durations : handleDurationChange(d)
  \/ \E t \in 0..(2 * MaxDurations) : t <= videoDuration /\ handleTimeUpdate(t, videoDuration)
  \/ autoPlay
  \/ clickPlayer
  \/ \E f \in ClickFractions : clickProgressBar(f)
  \/ handleError
  \/ handleCanPlay
  \/ toggleQuality
  \/ \E src \in 1..MaxPlaybackSources : onSelect(src)
  \/ toggleEpisodeSelector
  \/ closeEpisodeSelector
  \/ \E s \in 1..MaxSeasons : selectSeasonTab(s)

SpecPlayback == InitPlayback /\ [][NextPlayback]_vars

\* The watch page of a show with its navigation: requests in flight while the
\* target changes, the Previous and Next buttons, the episode lists
WatchResolutions ==
  {NoData} \cup { ApiResponse(l) : l \in { k \in ListsUpTo(1) : Len(k) = 1 /\ k[1].type = "mp4" } }

\* the shows: up to MaxSeasons seasons of up to MaxEpisodes episodes
Shows == UNION { [1..n -> 1..MaxEpisodes] : n \in 1..MaxSeasons }

InitWatch ==
  /\ \E show \in Shows : \E t \in Episodes(show) : ConstructedAt(show, t[1], t[2])
  /\ host = "WatchPage" /\ platform = "mse"
  /\ scene = NoScene
  /\ rendered = NotRendered

NextWatch ==
  \/ \E data \in WatchResolutions : fetchDataResolves(data)
  \/ handleNext
  \/ handlePrevious
  \/ \E n \in 1..MaxEpisodes : clickOverlayEpisode(n)
  \/ \E n \in 1..MaxEpisodes : clickBarEpisode(n)
  \/ \E s \in 1..MaxSeasons : onSeasonChange(s)
  \/ toggleEpisodeSelector
  \/ closeEpisodeSelector
  \/ \E s \in 1..MaxSeasons : selectSeasonTab(s)

SpecWatch == InitWatch /\ [][NextWatch]_vars

(***************************************************************************)
(* Display surfaces.  A scene is what a surface is given: a raw quality,   *)
(* an episode tile with the watch store, an episode to click, or a resume  *)
(* lookup.  Each render action applies the surface's code to the scene.    *)
(***************************************************************************)
playerVars == << fixedVars, watchVars, seekVars, elementVars, pastVars, menuVars, pageVars, controlVars, mediaVars,
                 customPlayerVars, jellyData, mounted, currentSource, triedSources,
                 isLoading, progress, customTimers, lastEvent, attachRan >>

\* raw quality strings an API response carries
RawQualities ==
  { <<>>,
    <<"u","n","k","n","o","w","n">>,
    <<"U","p"," ","t","o"," ","H","D">>,
    <<"h","d">>,
    <<"H","D","7","2","0">>,
    <<"2","1","6","0","p">>,
    <<"4","K">>,
    <<"1","4","4","0","p">>,
    <<"2","k">>,
    <<"1","0","8","0">>,
    <<"7","2","0">>,
    <<"4","8","0","p">>,
    <<"3","6","0","p">>,
    <<"2","4","0">>,
    <<"1","4","4","p">>,
    <<"a","u","t","o">> }

QualityScenes == { [kind |-> "quality", raw |-> r] : r \in RawQualities }

\* the two copies of formatQuality
QualityVariants == {"CustomVideoPlayer", "EpisodeSelector"}

\* a quality button's label: formatQuality(source.quality)
renderQualityLabel(variant) ==
  /\ scene.kind = "quality" /\ rendered = NotRendered
  /\ rendered' = [kind |-> "quality", variant |-> variant,
                  label |-> IF variant = "CustomVideoPlayer"
                            THEN formatQuality(scene.raw)
                            ELSE formatQualityLegacy(scene.raw)]
  /\ UNCHANGED << playerVars, scene >>

(***************************************************************************)
(* Watch progress.  An optional value is << >> or a one-element sequence.  *)
(* A history entry is [id, mediaType, season, episode, isCompleted,        *)
(* progress], progress being optional [watched, duration] in seconds; the  *)
(* in-session progress is [id, mediaType, season, episode, isCompleted,    *)
(* timestamp, duration].                                                   *)
(***************************************************************************)
Max(a, b) == IF a >= b THEN a ELSE b
Min(a, b) == IF a <= b THEN a ELSE b

\* Array.prototype.find, given the elements passing the test in order: the
\* first of them, if any
find(hits) == IF hits = <<>> THEN <<>> ELSE << hits[1] >>

\* a remaining-time text: "<minutes>m" or "<hours>h <minutes>m"; none is << >>
NoLabel == <<>>
MinutesLabel(n) == << [form |-> "m", hours |-> 0, minutes |-> n] >>

\* formatDuration of EpisodeSelector.tsx
formatDuration(minutes) ==
  IF minutes = 0 THEN NoLabel
  ELSE IF minutes >= 60
    THEN << [form |-> "hm", hours |-> minutes \div 60, minutes |-> minutes % 60] >>
  ELSE MinutesLabel(minutes)

\* (watched / total) * 100, to the whole percent below
percent(watched, total) == (watched * 100) \div total

\* watched / total >= 0.9
ratioReached(watched, total) == 10 * watched >= 9 * total

\* getEpisodeProgress of EpisodeSelector.tsx
getEpisodeProgress(resumeInfo, watchHistory, tvId, seasonNumber, episodeNumber) ==
  IF /\ resumeInfo # <<>>
     /\ resumeInfo[1].id = tvId
     /\ resumeInfo[1].season = seasonNumber
     /\ resumeInfo[1].episode = episodeNumber
  THEN LET r == resumeInfo[1]
       IN << [progress |-> percent(r.timestamp, r.duration),
              isCompleted |-> r.isCompleted \/ ratioReached(r.timestamp, r.duration),
              isWatching |-> ~r.isCompleted /\ r.timestamp > 0,
              remainingTime |-> formatDuration((r.duration - r.timestamp) \div 60)] >>
  ELSE
    LET historyProgress ==
          find(SelectSeq(watchHistory,
               LAMBDA item : /\ item.mediaType = "tv" /\ item.id = tvId
                             /\ item.season = seasonNumber
                             /\ item.episode = episodeNumber))
    IN  IF historyProgress # <<>> /\ historyProgress[1].progress # <<>>
        THEN LET watched == historyProgress[1].progress[1].watched
                 total == historyProgress[1].progress[1].duration
                 remaining == Max(0, total - watched)
             IN << [progress |-> percent(watched, total),
                    isCompleted |-> historyProgress[1].isCompleted
                                      \/ ratioReached(watched, total),
                    isWatching |-> ~historyProgress[1].isCompleted /\ watched > 0,
                    remainingTime |-> formatDuration(remaining \div 60)] >>
        ELSE <<>>

\* the episode tile of EpisodeSelector, for an episode that is not the current one
episodeSelectorTile(variant, sc) ==
  LET p == getEpisodeProgress(sc.resumeInfo, sc.watchHistory, sc.tvId, sc.season, sc.episode)
  IN  IF p = <<>>
      THEN [completed |-> FALSE, label |-> NoLabel, fill |-> 0]
      ELSE [completed |-> p[1].isCompleted,
            label |-> IF variant = "list" \/ ~p[1].isCompleted
                      THEN p[1].remainingTime ELSE NoLabel,
            fill |-> Min(p[1].progress, 100)]

\* the episode tile of TVDetails, of HeroSection's episode grid and, without the
\* remaining-time badge, of the episode overlay of CustomVideoPlayer
historyTile(withBadge, sc) ==
  LET historyItem ==
        find(SelectSeq(sc.watchHistory,
             LAMBDA h : /\ h.id = sc.tvId /\ h.mediaType = "tv"
                        /\ h.season = sc.season /\ h.episode = sc.episode))
      hasProgress == historyItem # <<>> /\ historyItem[1].progress # <<>>
      watchedProgress ==
        IF hasProgress
        THEN percent(historyItem[1].progress[1].watched, historyItem[1].progress[1].duration)
        ELSE 0
      isCompleted == historyItem # <<>> /\ historyItem[1].isCompleted
  IN  [completed |-> isCompleted,
       label |-> IF withBadge /\ ~isCompleted /\ hasProgress
                 THEN MinutesLabel(Max(1, (historyItem[1].progress[1].duration
                                             - historyItem[1].progress[1].watched) \div 60))
                 ELSE NoLabel,
       fill |-> watchedProgress]

\* the continue-watching card of HeroSection for a history item
continueWatchingCard(item) ==
  LET itemProgress == IF item.progress # <<>>
                  THEN percent(item.progress[1].watched, item.progress[1].duration) ELSE 0
      remaining == IF item.progress # <<>>
                   THEN item.progress[1].duration - item.progress[1].watched ELSE 0
  IN  [completed |-> item.isCompleted,
       label |-> IF ~item.isCompleted /\ remaining > 0
                 THEN MinutesLabel(Max(1, remaining \div 60)) ELSE NoLabel,
       fill |-> itemProgress]

TileSurfaces == {"EpisodeSelectorList", "EpisodeSelectorGrid", "TVDetails",
                 "HeroSectionGrid", "CustomVideoPlayer", "ContinueWatching"}

tile(surface, sc) ==
  CASE surface = "EpisodeSelectorList" -> episodeSelectorTile("list", sc)
    [] surface = "EpisodeSelectorGrid" -> episodeSelectorTile("grid", sc)
    [] surface = "TVDetails" -> historyTile(TRUE, sc)
    [] surface = "HeroSectionGrid" -> historyTile(TRUE, sc)
    [] surface = "CustomVideoPlayer" -> historyTile(FALSE, sc)
    [] surface = "ContinueWatching" -> continueWatchingCard(sc.watchHistory[1])

\* (watched, duration) pairs, in seconds, around the 0.9 and the one-minute boundaries
ProgressPairs ==
  { [watched |-> pr[1], duration |-> pr[2]] :
      pr \in { <<0, 100>>, <<89, 100>>, <<90, 100>>, <<600, 3600>>,
               <<0, 3600>>, <<3599, 3600>>, <<3700, 3600>> } }

\* the history entries and the in-session progress of episode 1 of season 1 of show 1
TileEntries ==
  { [id |-> 1, mediaType |-> "tv", season |-> 1, episode |-> 1,
     isCompleted |-> c, progress |-> pr] :
      c \in BOOLEAN, pr \in {<<>>} \cup { << q >> : q \in ProgressPairs } }
TileSessions ==
  { [id |-> 1, mediaType |-> "tv", season |-> 1, episode |-> 1,
     isCompleted |-> c, timestamp |-> q.watched, duration |-> q.duration] :
      c \in BOOLEAN, q \in ProgressPairs }

\* an episode tile with the store holding the episode's history entry, its
\* in-session progress, or neither
TileScenes ==
  { [kind |-> "tile", tvId |-> 1, season |-> 1, episode |-> 1,
     resumeInfo |-> ri, watchHistory |-> wh] :
      ri \in {<<>>}, wh \in {<<>>} \cup { << e >> : e \in TileEntries } }
  \cup
  { [kind |-> "tile", tvId |-> 1, season |-> 1, episode |-> 1,
     resumeInfo |-> ri, watchHistory |-> wh] :
      ri \in { << r >> : r \in TileSessions }, wh \in {<<>>} }

\* a surface renders the watched state of the scene's episode
renderTile(surface) ==
  /\ scene.kind = "tile" /\ rendered = NotRendered
  /\ surface = "ContinueWatching" => scene.watchHistory # <<>>
  /\ rendered' = [kind |-> "tile", surface |-> surface,
                  completed |-> tile(surface, scene).completed,
                  label |-> tile(surface, scene).label,
                  fill |-> tile(surface, scene).fill]
  /\ UNCHANGED << playerVars, scene >>

(***************************************************************************)
(* Episode selection.  Time is counted in days; an air date is optional.   *)
(***************************************************************************)
\* new Date(): the current time
Now == 1

AirDates == {<<>>} \cup { << t >> : t \in 0..(Now + 1) }

EpisodeScenes == { [kind |-> "episode", airDate |-> a] : a \in AirDates }

\* isUpcoming = airDate ? airDate > new Date() : false
isUpcoming(airDate) == airDate # <<>> /\ airDate[1] > Now

\* the overlays with an episode button; "VideoPlayer" is the one of EpisodeSelector.tsx
EpisodeSurfaces == {"EpisodeSelectorList", "EpisodeSelectorGrid", "TVDetails",
                    "HeroSectionGrid", "CustomVideoPlayer", "VideoPlayer"}

\* the button's disabled attribute: VideoPlayer's episode grid sets none
disabled(surface, airDate) ==
  IF surface = "VideoPlayer" THEN FALSE ELSE isUpcoming(airDate)

\* a click on the episode's button: onClick runs unless the button is disabled,
\* and every onClick emits onEpisodeSelect or navigates
clickEpisode(surface) ==
  /\ scene.kind = "episode" /\ rendered = NotRendered
  /\ rendered' = [kind |-> "click", surface |-> surface,
                  disabled |-> disabled(surface, scene.airDate),
                  emitted |-> ~disabled(surface, scene.airDate)]
  /\ UNCHANGED << playerVars, scene >>

(***************************************************************************)
(* Resume lookups.                                                         *)
(***************************************************************************)
\* a lookup result: the in-session progress, a history entry, or nothing
NoResult == [from |-> "none", entry |-> <<>>]
fromSession(resumeInfo) == [from |-> "session", entry |-> resumeInfo]
fromHistory(found) == IF found = <<>> THEN NoResult ELSE [from |-> "history", entry |-> found]

\* currentProgress of EpisodeSelector.tsx
currentProgress(resumeInfo, watchHistory, tvId) ==
  LET historyInfo ==
        find(SelectSeq(watchHistory,
                       LAMBDA item : item.mediaType = "tv" /\ item.id = tvId))
  IN  IF resumeInfo # <<>> /\ resumeInfo[1].id = tvId /\ resumeInfo[1].mediaType = "tv"
      THEN fromSession(resumeInfo)
      ELSE fromHistory(historyInfo)

\* the entry getEpisodeProgress of EpisodeSelector.tsx takes its result from
episodeProgressSource(resumeInfo, watchHistory, tvId, seasonNumber, episodeNumber) ==
  IF /\ resumeInfo # <<>>
     /\ resumeInfo[1].id = tvId
     /\ resumeInfo[1].season = seasonNumber
     /\ resumeInfo[1].episode = episodeNumber
  THEN fromSession(resumeInfo)
  ELSE LET historyProgress ==
             find(SelectSeq(watchHistory,
                  LAMBDA item : /\ item.mediaType = "tv" /\ item.id = tvId
                                /\ item.season = seasonNumber
                                /\ item.episode = episodeNumber))
       IN  IF historyProgress # <<>> /\ historyProgress[1].progress # <<>>
           THEN fromHistory(historyProgress)
           ELSE NoResult

\* resumeInfo of TVDetails.tsx and of HeroSection's episode overlay
detailsResumeInfo(watchHistory, tvId) ==
  fromHistory(find(SelectSeq(watchHistory, LAMBDA h : h.id = tvId /\ h.mediaType = "tv")))

\* a number is truthy unless it is 0
truthy(n) == n # 0

LookupSurfaces == {"EpisodeSelector", "getEpisodeProgress", "TVDetails"}

lookup(surface, sc) ==
  CASE surface = "EpisodeSelector" ->
         currentProgress(sc.resumeInfo, sc.watchHistory, sc.tvId)
    [] surface = "getEpisodeProgress" ->
         episodeProgressSource(sc.resumeInfo, sc.watchHistory, sc.tvId, sc.season, sc.episode)
    [] surface = "TVDetails" ->
         detailsResumeInfo(sc.watchHistory, sc.tvId)

\* whether the surface shows its Resume button for the lookup's result
resumeButton(surface, result) ==
  CASE surface = "EpisodeSelector" ->
         /\ result.entry # <<>>
         /\ truthy(result.entry[1].season) /\ truthy(result.entry[1].episode)
    [] surface = "getEpisodeProgress" -> FALSE
    [] surface = "TVDetails" ->
         result.entry # <<>> /\ ~result.entry[1].isCompleted

\* a partial progress, in seconds
PartialProgress == [watched |-> 600, duration |-> 3600]

\* history entries of two shows and two films; a film has no season and episode
LookupEntries ==
  { [id |-> i, mediaType |-> "tv", season |-> 1, episode |-> e,
     isCompleted |-> c, progress |-> pr] :
      i \in 1..2, e \in 1..2, c \in BOOLEAN, pr \in {<<>>, << PartialProgress >>} }
  \cup
  { [id |-> i, mediaType |-> "movie", season |-> 0, episode |-> 0,
     isCompleted |-> FALSE, progress |-> << PartialProgress >>] : i \in 1..2 }

LookupSessions ==
  { [id |-> i, mediaType |-> "tv", season |-> 1, episode |-> e, isCompleted |-> FALSE,
     timestamp |-> PartialProgress.watched, duration |-> PartialProgress.duration] :
      i \in 1..2, e \in 1..2 }
  \cup
  { [id |-> i, mediaType |-> "movie", season |-> 0, episode |-> 0, isCompleted |-> FALSE,
     timestamp |-> PartialProgress.watched, duration |-> PartialProgress.duration] :
      i \in 1..2 }

Histories == UNION { [1..n -> LookupEntries] : n \in 0..MaxHistory }

\* a resume lookup for show 1 (and its season 1, episode 1)
LookupScenes ==
  { [kind |-> "lookup", tvId |-> 1, season |-> 1, episode |-> 1,
     resumeInfo |-> ri, watchHistory |-> wh] :
      ri \in {<<>>} \cup { << r >> : r \in LookupSessions }, wh \in Histories }

\* a surface looks up the progress to resume from
renderResume(surface) ==
  /\ scene.kind = "lookup" /\ rendered = NotRendered
  /\ rendered' = [kind |-> "lookup", surface |-> surface,
                  from |-> lookup(surface, scene).from,
                  entry |-> lookup(surface, scene).entry,
                  resumeButton |-> resumeButton(surface, lookup(surface, scene))]
  /\ UNCHANGED << playerVars, scene >>

(***************************************************************************)
(* Episode lists.                                                          *)
(***************************************************************************)
\* the orders in which a season's episodes may arrive
EpisodeOrders ==
  { f \in [1..MaxListed -> 1..MaxListed] : \A i, j \in 1..MaxListed : f[i] = f[j] => i = j }

\* the history in which the episodes of done are completed
completedHistory(done) ==
  LET RECURSIVE upTo(_)
      upTo(n) ==
        IF n = 0 THEN <<>>
        ELSE IF n \in done
          THEN Append(upTo(n - 1),
                      [id |-> 1, mediaType |-> "tv", season |-> 1, episode |-> n,
                       isCompleted |-> TRUE, progress |-> << PartialProgress >>])
          ELSE upTo(n - 1)
  IN  upTo(MaxListed)

\* season 1 of show 1 in some order, some of its episodes completed
ListScenes ==
  { [kind |-> "episodes", tvId |-> 1, season |-> 1, episodes |-> o,
     resumeInfo |-> <<>>, watchHistory |-> completedHistory(done)] :
      o \in EpisodeOrders, done \in SUBSET (1..MaxListed) }

\* progressA?.isCompleted of the comparator of sortedEpisodes
completedIn(sc, episodeNumber) ==
  LET p == getEpisodeProgress(sc.resumeInfo, sc.watchHistory, sc.tvId, sc.season, episodeNumber)
  IN  p # <<>> /\ p[1].isCompleted

\* the comparator of sortedEpisodes: negative when a is listed before b
compareEpisodes(sc, a, b) ==
  IF completedIn(sc, a) /\ ~completedIn(sc, b) THEN 1
  ELSE IF ~completedIn(sc, a) /\ completedIn(sc, b) THEN -1
  ELSE a - b

\* sortedEpisodes of EpisodeSelector.tsx; the other overlays map the season's
\* episodes in the order given, as the grid variant does
sortedEpisodes(variant, sc) ==
  IF variant = "list"
  THEN SortSeq(sc.episodes, LAMBDA a, b : compareEpisodes(sc, a, b) < 0)
  ELSE sc.episodes

ListVariants == {"list", "grid", "TVDetails"}

\* an overlay lists the episodes of the displayed season
renderEpisodeList(variant) ==
  /\ scene.kind = "episodes" /\ rendered = NotRendered
  /\ rendered' = [kind |-> "episodes", variant |-> variant,
                  listed |-> sortedEpisodes(variant, scene)]
  /\ UNCHANGED << playerVars, scene >>

Scenes ==
  QualityScenes \cup TileScenes \cup EpisodeScenes \cup LookupScenes \cup ListScenes

InitDisplay ==
  /\ Constructed
  /\ host = "WatchPage" /\ platform = "mse"
  /\ scene \in Scenes
  /\ rendered = NotRendered

NextDisplay ==
  \/ \E variant \in QualityVariants : renderQualityLabel(variant)
  \/ \E surface \in TileSurfaces : renderTile(surface)
  \/ \E surface \in EpisodeSurfaces : clickEpisode(surface)
  \/ \E surface \in LookupSurfaces : renderResume(surface)
  \/ \E variant \in ListVariants : renderEpisodeList(variant)

SpecDisplay == InitDisplay /\ [][NextDisplay]_vars

(***************************************************************************)
(* Properties.  VideoPlayer's candidates are named by their position in    *)
(* the list; a candidate's url is its position.                            *)
(***************************************************************************)
InVideoPlayer == host = "WatchPage" /\ mounted

\* positions of the candidate list
Candidates == 1..Len(jellyData.sources)

urlOf(i) == jellyData.sources[i].url

labelOf(i) == formatQuality(jellyData.sources[i].quality)

\* every candidate of a non-empty list has been recorded as failed
Exhausted ==
  /\ InVideoPlayer
  /\ Candidates # {}
  /\ \A i \in Candidates : urlOf(i) \in triedSources

\* C1: once every candidate has failed the player is in a terminal error state:
\* no source is attached or re-attached.
C1_TerminalAfterExhaustion ==
  Exhausted => ~attachRan

\* C2: a candidate picked by the automatic fallback is never one whose url was
\* already tried, and never the candidate that just failed.
C2_FallbackNeverReselects ==
  [][ (InVideoPlayer /\ lastEvent' = "handleError" /\ currentSource' # currentSource)
        => /\ urlOf(currentSource') \notin triedSources
           /\ urlOf(currentSource') # urlOf(currentSource)
           /\ urlOf(currentSource') \notin triedSources' ]_vars

\* a fallback with two urls on record as tried picked the candidate left
C2_Witness ==
  /\ InVideoPlayer
  /\ lastEvent = "handleError"
  /\ Cardinality(triedSources) = 2
  /\ currentSource # 0
  /\ urlOf(currentSource) \notin triedSources
  /\ attachRan

\* C3: a fatal error of the adaptive client, like an error of the media
\* element, records the failing source's url as tried and, when an untried
\* candidate is left, selects one of them.
C3_FatalErrorFallsBack ==
  [][ (InVideoPlayer /\ lastEvent' \in {"handleError", "onHlsErrorFatal"})
        => /\ urlOf(currentSource) \in triedSources'
           /\ (\E i \in Candidates : urlOf(i) \notin triedSources')
                 => urlOf(currentSource') \notin triedSources' ]_vars

\* the element plays a url directly, with no adaptive client
DirectSrc == videoSrc \notin {NoSrc, BlobSrc}

\* C4: in every reachable state at most one adaptive-streaming client is alive,
\* and none is while the media element has a source attached directly: the
\* previous client is destroyed before the next source is attached.
C4_SingleAttachment ==
  /\ hlsAlive <= 1
  /\ DirectSrc => hlsAlive = 0

\* C5: once the player is unmounted no adaptive client of it is alive and no
\* auto-hide timer of it is pending, so none of its callbacks fires later.
C5_UnmountReleases ==
  (host = "WatchPage" /\ ~mounted)
    => (hlsAlive = 0 /\ staleTimers = 0 /\ controlsTimeout = "none")

\* pick is the preferred candidate among the positions idxs: the first one
\* labelled HD; with none labelled HD the first labelled 1080p; with neither
\* the first of idxs
PreferredAmong(idxs, pick) ==
  /\ pick \in idxs
  /\ \/ /\ labelOf(pick) = LabelHD
        /\ \A j \in idxs : j < pick => labelOf(j) # LabelHD
     \/ /\ \A j \in idxs : labelOf(j) # LabelHD
        /\ labelOf(pick) = Label1080p
        /\ \A j \in idxs : j < pick => labelOf(j) # Label1080p
     \/ /\ \A j \in idxs : labelOf(j) \notin {LabelHD, Label1080p}
        /\ \A j \in idxs : pick <= j

\* C6: the source the player starts with is the first candidate labelled HD,
\* else the first labelled 1080p, else the first of the list (none if empty).
C6_InitialPick ==
  (InVideoPlayer /\ lastEvent = "mount")
    => IF Candidates = {} THEN currentSource = 0
       ELSE PreferredAmong(Candidates, currentSource)

\* the list 720p, HD, 1080p: the player starts with the second candidate
C6_Witness ==
  /\ InVideoPlayer /\ lastEvent = "mount"
  /\ Len(jellyData.sources) = 3
  /\ labelOf(1) = <<"7","2","0","p">>
  /\ labelOf(2) = LabelHD
  /\ labelOf(3) = Label1080p
  /\ currentSource = 2
  /\ attachRan

\* C7: the automatic fallback records the failing url and picks, among the
\* candidates whose url is not tried, the first labelled HD, else the first
\* labelled 1080p, else the first remaining in list order; with none left the
\* current source stays.
C7_FallbackPreference ==
  [][ (InVideoPlayer /\ lastEvent' = "handleError")
        => /\ triedSources' = triedSources \cup {urlOf(currentSource)}
           /\ LET left == { i \in Candidates : urlOf(i) \notin triedSources' }
              IN  IF left = {} THEN currentSource' = currentSource
                  ELSE PreferredAmong(left, currentSource') ]_vars

\* of 720p, HD, 1080p the HD candidate failed: the fallback picked the third
\* candidate, 1080p, over the first
C7_Witness ==
  /\ InVideoPlayer /\ lastEvent = "handleError"
  /\ Len(jellyData.sources) = 3
  /\ labelOf(1) = <<"7","2","0","p">>
  /\ labelOf(3) = Label1080p
  /\ triedSources = {urlOf(2)}
  /\ currentSource = 3
  /\ attachRan

\* candidate i is what the element plays: through a live adaptive client for an
\* hls candidate, or directly by its url, and no other client is alive
SourceAttached(i) ==
  IF hlsRef = "live"
  THEN jellyData.sources[i].type = "hls" /\ videoSrc = BlobSrc /\ hlsAlive = 1
  ELSE videoSrc = urlOf(i) /\ hlsAlive = 0

\* the platform can play candidate i
Playable(i) == jellyData.sources[i].type = "mp4" \/ platform \in {"mse", "native"}

\* C8 as stated: every quality selection by the user is a fresh attachment:
\* the attachment effect runs, the loading flag is set, progress is 0, the
\* selected source is attached, and the tried set is unchanged.
C8_SelectAlwaysReattaches ==
  [][ (InVideoPlayer /\ lastEvent' = "onSelect")
        => /\ attachRan'
           /\ isLoading'
           /\ progress' = 0
           /\ SourceAttached(currentSource)'
           /\ triedSources' = triedSources ]_vars

\* C8, amended: a quality selection never changes the tried set.  Selecting a
\* source other than the current one is a fresh attachment: the previous client
\* is torn down, the loading flag is set, progress is 0, and the source is
\* attached if the platform can play it (otherwise the element is left without
\* a source).  Selecting the current source changes neither the attachment nor
\* the loading flag nor progress.
C8_ManualSwitch ==
  [][ (InVideoPlayer /\ lastEvent' = "onSelect")
        => /\ triedSources' = triedSources
           /\ IF currentSource' # currentSource
              THEN /\ attachRan'
                   /\ isLoading'
                   /\ progress' = 0
                   /\ IF Playable(currentSource')
                      THEN SourceAttached(currentSource)'
                      ELSE videoSrc' = NoSrc /\ hlsAlive' = 0
              ELSE /\ ~attachRan'
                   /\ UNCHANGED << isLoading, progress, mediaVars >> ]_vars

\* the user switched back to a source recorded as tried; it is attached and the
\* record is kept
C8_Witness ==
  /\ InVideoPlayer /\ lastEvent = "onSelect"
  /\ attachRan
  /\ urlOf(currentSource) \in triedSources
  /\ SourceAttached(currentSource)
  /\ isLoading /\ progress = 0

\* source resolution has settled without a candidate: null data or an empty
\* list on the watch page; an error or an empty list of CustomPlayer's query
ResolvedWithoutCandidates ==
  \/ /\ host = "WatchPage" /\ ~isJellyLoading
     /\ jellyData.isNull \/ Len(jellyData.sources) = 0
  \/ /\ host = "CustomPlayer" /\ mounted /\ ~isFetching
     /\ queryStatus = "error" \/ Len(jellyData.sources) = 0

\* the iframe player when a fallback url exists (the watch page always has its
\* videoUrl), else the "failed to load video" screen with its retry button
ShowsFallbackOrFailure ==
  IF host = "WatchPage" THEN WatchView = "iframe"
  ELSE CustomView = (IF embedUrl THEN "iframe" ELSE "failed")

\* C9: when source resolution fails or yields no candidate the player does not
\* stay loading: it shows the iframe fallback if there is a fallback url, else
\* the failed state with its retry.
C9_NoCandidatesNeverLoading ==
  ResolvedWithoutCandidates => ShowsFallbackOrFailure

\* the selected source is an hls manifest and the platform has neither hls.js
\* support nor native support for it
UnsupportedSelected ==
  /\ platform = "none"
  /\ \/ /\ InVideoPlayer /\ currentSource # 0
        /\ jellyData.sources[currentSource].type = "hls"
     \/ /\ host = "CustomPlayer" /\ mounted
        /\ error = "unsupported"

\* the only error screen of either player: CustomPlayer's "failed" screen
\* (VideoPlayer renders none)
ShowsTerminalError == host = "CustomPlayer" /\ CustomView = "failed"

\* C10: with an unsupported hls source selected the player is in a terminal
\* error state: it shows the error, and neither another source nor the iframe
\* player is tried.
C10_UnsupportedIsTerminal ==
  UnsupportedSelected => ShowsTerminalError

\* C16: in VideoPlayer the transport controls are never hidden while the
\* quality, subtitle or episode-selector menu is open.
C16_ControlsShownWhileMenuOpen ==
  (InVideoPlayer /\ menuOpen) => showControls

\* a timer set while a menu was open has fired with the menu still open
C16_Witness ==
  /\ InVideoPlayer /\ menuOpen
  /\ lastEvent = "timerFired"
  /\ showControls

\* C17: in VideoPlayer, with no menu open, the controls get hidden after 3 idle
\* seconds: whenever they are visible with no menu open, a timer that will hide
\* them is pending (after mount and after a menu was closed too).
C17_IdleHides ==
  (InVideoPlayer /\ ~menuOpen /\ showControls) => controlsTimeout = "hide"

\* the auto-hide timers that are pending for the mounted player
PendingHideTimers ==
  IF host = "CustomPlayer" THEN customTimers
  ELSE IF controlsTimeout = "none" THEN 0 ELSE 1

\* C18: in both players at most one hide timer is pending, and the controls
\* are not hidden while the timer of a later pointer movement is still pending
\* (they are not hidden earlier than 3 seconds after the latest movement).
C18_PointerResetsTimer ==
  /\ PendingHideTimers <= 1
  /\ (mounted /\ ~showControls) => PendingHideTimers = 0


\* the fixed label set the specification names
FixedLabels ==
  { <<"4","K">>, <<"2","K">>, <<"1","0","8","0","p">>, <<"7","2","0","p">>,
    <<"4","8","0","p">>, <<"3","6","0","p">>, <<"H","D">>, <<"S","D">> }

\* C14: a raw quality is normalized before display: "2160p" shows as "4K", the
\* empty string as "SD", "Up to HD" as "HD" and "720" as "720p".
C14_NormalizedExamples ==
  rendered.kind = "quality" =>
    /\ scene.raw = <<"2","1","6","0","p">> => rendered.label = <<"4","K">>
    /\ scene.raw = <<>> => rendered.label = <<"S","D">>
    /\ scene.raw = <<"U","p"," ","t","o"," ","H","D">> => rendered.label = <<"H","D">>
    /\ scene.raw = <<"7","2","0">> => rendered.label = <<"7","2","0","p">>

sceneEntry == scene.watchHistory
\* the progress (watched, duration) the store holds for the tile's episode
sceneProgress ==
  IF scene.resumeInfo # <<>>
  THEN << [watched |-> scene.resumeInfo[1].timestamp,
           duration |-> scene.resumeInfo[1].duration] >>
  ELSE IF scene.watchHistory # <<>> THEN scene.watchHistory[1].progress
  ELSE <<>>

\* C11: on every surface a history entry is shown as completed exactly when its
\* completed flag is set or watched/duration >= 0.9.
C11_CompletedAtNinety ==
  (rendered.kind = "tile" /\ sceneEntry # <<>>) =>
    (rendered.completed <=>
       \/ sceneEntry[1].isCompleted
       \/ /\ sceneEntry[1].progress # <<>>
          /\ 10 * sceneEntry[1].progress[1].watched
               >= 9 * sceneEntry[1].progress[1].duration)

\* C12: a displayed remaining time is never 0 or negative, and a displayed
\* "<n>m left" has n = max(1, floor((duration - watched) / 60)).
C12_RemainingAtLeastOneMinute ==
  (rendered.kind = "tile" /\ rendered.label # NoLabel /\ sceneProgress # <<>>) =>
    /\ 60 * rendered.label[1].hours + rendered.label[1].minutes > 0
    /\ rendered.label[1].form = "m" =>
         rendered.label[1].minutes
           = Max(1, (sceneProgress[1].duration - sceneProgress[1].watched) \div 60)


\* C13: in every episode overlay an episode whose air date is strictly later
\* than the current time cannot be selected, and one whose air date is the
\* current time or earlier can.
C13_UpcomingNotSelectable ==
  (rendered.kind = "click" /\ scene.airDate # <<>>) =>
    (rendered.emitted <=> scene.airDate[1] <= Now)

\* whether the in-session progress or a history entry matches the lookup's key:
\* show 1, and for the lookup of an episode its season and episode too
keyHasEpisode == rendered.surface = "getEpisodeProgress"
matchesKey(e) ==
  /\ e.id = scene.tvId /\ e.mediaType = "tv"
  /\ keyHasEpisode => (e.season = scene.season /\ e.episode = scene.episode)
sessionMatches == scene.resumeInfo # <<>> /\ matchesKey(scene.resumeInfo[1])

\* C19: a resume lookup returns the in-session progress when it matches the key,
\* and otherwise a history entry matching the key; never an entry of another
\* media type, season or episode.
C19_LookupPolicy ==
  rendered.kind = "lookup" =>
    /\ sessionMatches => rendered.from = "session"
    /\ rendered.from = "session" => sessionMatches
    /\ rendered.from = "history" => matchesKey(rendered.entry[1])

\* C20: a history entry without recorded progress produces no Resume button,
\* no progress bar and no remaining-time label.
C20_NoProgressNoAffordance ==
  /\ (rendered.kind = "tile" /\ scene.resumeInfo = <<>> /\ sceneProgress = <<>>) =>
       (rendered.label = NoLabel /\ rendered.fill = 0)
  /\ (rendered.kind = "lookup" /\ rendered.from = "history"
        /\ rendered.entry[1].progress = <<>>) => ~rendered.resumeButton


\* C25: the loading indicator is cleared only by the element's can-play or
\* playing signal or by the fatal-error path, and a non-fatal error event of the
\* streaming client leaves the loading flag, the current source and the tried
\* set unchanged.
C25_TransientErrorNotSurfaced ==
  [][ /\ lastEvent' = "onHlsError" =>
           UNCHANGED << isLoading, currentSource, triedSources >>
      /\ (InVideoPlayer /\ mounted' /\ isLoading /\ ~isLoading') =>
           lastEvent' \in {"handleCanPlay", "handleError", "onHlsErrorFatal"}
    ]_vars


\* C28: in CustomPlayer, when the request started by Retry after a playback error
\* settles with the same sources, the error is cleared and the selected source is
\* attached to the media element.
C28_RetryReattaches ==
  [][ ( /\ host = "CustomPlayer" /\ mounted /\ platform # "none"
        /\ lastEvent = "retry"
        /\ isFetching /\ ~isFetching' /\ queryStatus' = "success"
        /\ jellyData' = jellyData /\ Len(jellyData.sources) > 0 )
      => (error' = "null" /\ selectedSource' # NoSource /\ videoSrc' # NoSrc)
    ]_vars


\* the sort key of an episode: completed episodes after the others in the variant
\* that demotes them, then the episode number
listKey(e) ==
  IF rendered.variant = "list" /\ completedIn(scene, e) THEN MaxListed + e ELSE e

\* C24: the episodes of the displayed season are listed in ascending
\* episode-number order for any input order; the variant that demotes completed
\* episodes lists by (completed, episode number).
C24_ListedInOrder ==
  rendered.kind = "episodes" =>
    \A i, j \in 1..Len(rendered.listed) :
      i < j => listKey(rendered.listed[i]) < listKey(rendered.listed[j])

\* C21: on every time update of the element during playback the player hands
\* the (currentTime, duration) pair to the history collaborator and sets the
\* displayed progress to currentTime / duration
C21_ProgressEmitted ==
  [][ (lastEvent' = "handleTimeUpdate" /\ videoDuration' # 0) =>
        /\ emitted' = << currentTime', videoDuration' >>
        /\ progress' = (currentTime' * 100) \div videoDuration' ]_vars

\* C22: a click on the progress bar at fraction f sets the position to
\* clamp(f, 0, 1) times the duration of the attached source, and does nothing
\* while that duration is not known
C22_SeekOfAttachedSource ==
  [][ lastEvent' = "clickProgressBar" =>
        IF videoDuration = 0
        THEN UNCHANGED << currentTime, progress >>
        ELSE currentTime' = (clampFraction(clickAt'[1]) * videoDuration) \div 100 ]_vars

\* C27: a click on the progress bar leaves the element's paused flag as it was
C27_SeekKeepsPlayState ==
  [][ lastEvent' = "clickProgressBar" => paused' = paused ]_vars

\* C23: a season tab of the episode overlay changes the season whose list is
\* shown and nothing of what plays: no navigation, no request, the same target,
\* source, tried set and paused flag
C23_SeasonTabOnlyLists ==
  [][ lastEvent' = "selectSeasonTab" =>
        /\ mounted /\ showEpisodeSelector
        /\ UNCHANGED << season, episode, pending, navigations, isJellyLoading, jellyData,
                        mounted, currentSource, triedSources, videoSrc, paused,
                        showEpisodeSelector >> ]_vars

C23_Witness ==
  /\ lastEvent = "selectSeasonTab" /\ mounted
  /\ selectedSeason # season
  /\ currentSource # 0 /\ ~paused

\* C26: whenever no request is in flight, the installed response (jellyData and
\* the player choice made from it) is the one for the route's target
C26_LatestResponseInstalled ==
  (host = "WatchPage" /\ pending = {} /\ jellyTarget # NoTarget) =>
    jellyTarget = << season, episode >>

\* C29: the Next button is disabled exactly when handleNext would not navigate,
\* and the Previous button exactly when handlePrevious would not
C29_DisabledIffNoNavigation ==
  host = "WatchPage" =>
    /\ isLastEpisode <=> (nextTarget(season, episode) = << season, episode >>)
    /\ isFirstEpisode <=> (previousTarget(season, episode) = << season, episode >>)

\* C30: handleNext followed by handlePrevious, and handlePrevious followed by
\* handleNext, return to the target they started from
C30_RoundTrip ==
  [][ /\ (lastEvent = "handleNext" /\ lastEvent' = "handlePrevious") =>
           << season', episode' >> = cameFrom
      /\ (lastEvent = "handlePrevious" /\ lastEvent' = "handleNext") =>
           << season', episode' >> = cameFrom ]_vars

====
